---------------------------- MODULE Spec2Model ----------------------------
(***************************************************************************)
(* Blackjack adviser: the shoe's Hi-Lo count, hand evaluation, the split   *)
(* hands of a seat, the table's card operations with the simulator's undo, *)
(* and the basic-strategy lookup.                                          *)
(*                                                                         *)
(* Three specifications share the variables:                               *)
(*   Spec         the table, its shoe and the simulator's undo history     *)
(*   SpecSplit    one seat's Hand / SplitHands object on its own           *)
(*   SpecStrategy a hand built card by card and BasicStrategy.get_action   *)
(***************************************************************************)
EXTENDS Integers, Sequences, FiniteSets, TLC

(***************************************************************************)
(* Bounds of the model.                                                    *)
(***************************************************************************)
\* Spec: a card is entered only while the dealt log and the action history
\* each hold fewer than this many entries
MaxDealt == 2
\* Spec: ... and while fewer than this many cards lie on the table
MaxTableCards == 3
\* SpecSplit: cards held by the seat's hands altogether.
MaxSplitCards == 5
\* SpecStrategy: cards of the hand under evaluation.
MaxHandLen == 3
\* Largest Rules.max_split_hands the table is configured with.
MaxConfiguredSplitHands == 5
\* Most cards in a hand the Advisor is asked about
MaxAdviceCards == 3
\* Largest size of a whole true count the Advisor is asked with
MaxTrueCount == 5
\* Cards dealt from one shoe: past the 6 * 52 cards it holds
MaxShoeDealt == 314

(***************************************************************************)
(* core/card.py: Rank, Card                                                *)
(***************************************************************************)
Rank == {"2", "3", "4", "5", "6", "7", "8", "9", "T", "J", "Q", "K", "A"}

\* Ranks the table operations of Spec are fed with: a low card (+1) and a
\* high card (-1)
DealRanks == {"5", "K"}

\* Ranks the seat of SpecSplit is fed with: a pair of equal ranks, a pair of
\* different ten-valued ranks, and non-pairs
SplitRanks == {"8", "T", "K"}

bj_value(rank) ==
    CASE rank = "2" -> 2 [] rank = "3" -> 3 [] rank = "4" -> 4
      [] rank = "5" -> 5 [] rank = "6" -> 6 [] rank = "7" -> 7
      [] rank = "8" -> 8 [] rank = "9" -> 9
      [] rank \in {"T", "J", "Q", "K"} -> 10
      [] rank = "A" -> 11

hi_lo_value(rank) ==
    CASE rank \in {"2", "3", "4", "5", "6"} -> 1
      [] rank \in {"7", "8", "9"} -> 0
      [] rank \in {"T", "J", "Q", "K", "A"} -> -1

(***************************************************************************)
(* core/hand.py: Hand.  A hand is the sequence of its cards' ranks.        *)
(***************************************************************************)
\* is_pair comparing ranks instead of blackjack values
is_pair_same_rank(cards) ==
    Len(cards) = 2 /\ cards[1] = cards[2]

is_pair(cards) ==
    Len(cards) = 2 /\ bj_value(cards[1]) = bj_value(cards[2])

\* Rank of the first card if the hand is a pair, "None" otherwise
pair_rank(cards) == IF is_pair(cards) THEN cards[1] ELSE "None"

RECURSIVE ace_count(_)
ace_count(cards) ==
    IF cards = <<>> THEN 0
    ELSE (IF Head(cards) = "A" THEN 1 ELSE 0) + ace_count(Tail(cards))

\* sum(card.value for card in self.cards if card.rank != Rank.ACE)
RECURSIVE non_ace_total(_)
non_ace_total(cards) ==
    IF cards = <<>> THEN 0
    ELSE (IF Head(cards) # "A" THEN bj_value(Head(cards)) ELSE 0)
         + non_ace_total(Tail(cards))

calculate_total_strict(cards) ==
    IF cards = <<>> THEN <<0, FALSE>>
    ELSE LET aces == ace_count(cards)
             total == non_ace_total(cards) + aces
         IN  IF aces = 0 THEN <<non_ace_total(cards), FALSE>>
             ELSE IF total + 10 < 21 THEN <<total + 10, TRUE>>
             ELSE <<total, FALSE>>

\* Hand._calculate_total: <<total, is_soft>>
calculate_total(cards) ==
    IF cards = <<>> THEN <<0, FALSE>>
    ELSE LET aces == ace_count(cards)
             total == non_ace_total(cards) + aces
         IN  IF aces = 0 THEN <<non_ace_total(cards), FALSE>>
             ELSE IF total + 10 <= 21 THEN <<total + 10, TRUE>>
             ELSE <<total, FALSE>>

total(cards) == calculate_total(cards)[1]

is_soft(cards) == calculate_total(cards)[2]

\* is_blackjack without its test of the number of cards
is_blackjack_any_21(cards) == total(cards) = 21

is_blackjack(cards) == Len(cards) = 2 /\ total(cards) = 21

is_busted(cards) == total(cards) > 21

Hand_can_double(cards) == Len(cards) = 2

Hand_can_split(cards) == is_pair(cards)


(***************************************************************************)
(* State                                                                   *)
(***************************************************************************)
VARIABLES
    cards_dealt,           \* Shoe.cards_dealt: the dealt log, oldest first
    running_count,         \* Shoe.running_count
    hands,                 \* Seat.hands: <<hand>> for a Hand, the hands of a SplitHands
    is_split,              \* isinstance(Seat.hands, SplitHands)
    current_hand_index,    \* SplitHands.current_hand_index (0-based; 0 for a Hand)
    completed_hands,       \* SplitHands.completed_hands
    upcard,                \* DealerHand.upcard ("None" when unset)
    hole_card,             \* DealerHand.hole_card ("None" when unset)
    hit_cards,             \* DealerHand.hit_cards
    round_active,          \* Table.round_active
    action_history,        \* BlackjackTableSimulator.action_history
    max_split_hands,       \* Rules.max_split_hands of the table's rules
    last_call,             \* the last operation called and how it ended
    strategy_call,         \* the last strategy lookup: its arguments and result
    pc                     \* where the simulator waits for input: "command", or the
                           \* prompt of start_new_round it has reached

shoeVars == <<cards_dealt, running_count>>
seatVars == <<hands, is_split, current_hand_index, completed_hands>>
dealerVars == <<upcard, hole_card, hit_cards>>
vars == <<cards_dealt, running_count, hands, is_split, current_hand_index,
          completed_hands, upcard, hole_card, hit_cards, round_active,
          action_history, max_split_hands, last_call, strategy_call, pc>>

\* How a call ends: it returns, it raises, or (undo) it returns a refusal
Call(op, result) == [op |-> op, result |-> result]

NoStrategyCall == [fn |-> "None"]

(***************************************************************************)
(* core/rules.py, core/hand.py: limits                                     *)
(***************************************************************************)
\* DEFAULT_RULES.max_split_hands
DefaultMaxSplitHands == 4
\* the literal in SplitHands.can_split_current
SplitHandsLimit == 4
\* the literal in BlackjackTableSimulator._record_action
HistoryLimit == 50

(***************************************************************************)
(* core/hand.py: SplitHands                                                *)
(***************************************************************************)
current_hand == hands[current_hand_index + 1]

is_complete_some == completed_hands # {}

\* SplitHands.is_complete
is_complete == Cardinality(completed_hands) = Len(hands)

\* SplitHands.can_split_current
can_split_current == is_pair(current_hand) /\ Len(hands) < SplitHandsLimit

\* The two one-card hands SplitHands.__init__ builds from a pair
initial_split(original) == << <<original[1]>>, <<original[2]>> >>

split_at_end(hs, i) ==
    SubSeq(hs, 1, i) \o << <<hs[i + 1][1]>> >> \o SubSeq(hs, i + 2, Len(hs))
        \o << <<hs[i + 1][2]>> >>

\* split_current's list surgery: hands[i] = new_hand1; hands.insert(i + 1, new_hand2)
split_at(hs, i) ==
    SubSeq(hs, 1, i) \o << <<hs[i + 1][1]>>, <<hs[i + 1][2]>> >>
        \o SubSeq(hs, i + 2, Len(hs))

next_incomplete_past_end(n, done, cur) ==
    IF \E i \in 0..(n - 1) : i \notin done
    THEN CHOOSE i \in 0..(n - 1) : i \notin done /\ \A j \in 0..(i - 1) : j \in done
    ELSE n

\* The scan taking the last index not in done instead of the first
next_incomplete_from_end(n, done, cur) ==
    IF \E i \in 0..(n - 1) : i \notin done
    THEN CHOOSE i \in 0..(n - 1) :
             i \notin done /\ \A j \in (i + 1)..(n - 1) : j \in done
    ELSE cur

\* complete_current_hand's scan: the first i in range(n) not in done, else cur
next_incomplete(n, done, cur) ==
    IF \E i \in 0..(n - 1) : i \notin done
    THEN CHOOSE i \in 0..(n - 1) : i \notin done /\ \A j \in 0..(i - 1) : j \in done
    ELSE cur

\* SplitHands.__init__(original_hand), original_hand being the seat's Hand
SplitHands_init ==
    /\ ~is_split
    /\ IF ~Hand_can_split(hands[1])
       THEN /\ last_call' = Call("SplitHands", "raised")
            /\ UNCHANGED seatVars
       ELSE /\ hands' = initial_split(hands[1])
            /\ current_hand_index' = 0
            /\ completed_hands' = {}
            /\ is_split' = TRUE
            /\ last_call' = Call("SplitHands", "ok")
    /\ UNCHANGED <<shoeVars, dealerVars, round_active, action_history,
                   max_split_hands, pc, strategy_call>>

\* Seat.add_card / SplitHands.add_card_to_current / Hand.add_card
seat_after_add(card) ==
    [hands EXCEPT ![current_hand_index + 1] = Append(@, card)]

add_card_to_current(card) ==
    /\ is_split
    /\ hands' = seat_after_add(card)
    /\ last_call' = Call("add_card_to_current", "ok")
    /\ UNCHANGED <<is_split, current_hand_index, completed_hands>>
    /\ UNCHANGED <<shoeVars, dealerVars, round_active, action_history,
                   max_split_hands, pc, strategy_call>>

complete_current_hand_off_by_one ==
    /\ is_split
    /\ completed_hands' = completed_hands \cup {current_hand_index + 1}
    /\ current_hand_index' =
           next_incomplete(Len(hands), completed_hands', current_hand_index)
    /\ last_call' = Call("complete_current_hand", "ok")
    /\ UNCHANGED <<hands, is_split>>
    /\ UNCHANGED <<shoeVars, dealerVars, round_active, action_history,
                   max_split_hands, pc, strategy_call>>

complete_current_hand ==
    /\ is_split
    /\ completed_hands' = completed_hands \cup {current_hand_index}
    /\ current_hand_index' =
           next_incomplete(Len(hands), completed_hands', current_hand_index)
    /\ last_call' = Call("complete_current_hand", "ok")
    /\ UNCHANGED <<hands, is_split>>
    /\ UNCHANGED <<shoeVars, dealerVars, round_active, action_history,
                   max_split_hands, pc, strategy_call>>

split_current_unguarded ==
    /\ is_split
    /\ IF Len(current_hand) < 2
       THEN /\ last_call' = Call("split_current", "raised")
            /\ UNCHANGED seatVars
       ELSE /\ hands' = split_at(hands, current_hand_index)
            /\ last_call' = Call("split_current", "ok")
            /\ UNCHANGED <<is_split, current_hand_index, completed_hands>>
    /\ UNCHANGED <<shoeVars, dealerVars, round_active, action_history,
                   max_split_hands, pc, strategy_call>>

split_current ==
    /\ is_split
    /\ IF ~can_split_current
       THEN /\ last_call' = Call("split_current", "raised")
            /\ UNCHANGED seatVars
       ELSE /\ hands' = split_at(hands, current_hand_index)
            /\ last_call' = Call("split_current", "ok")
            /\ UNCHANGED <<is_split, current_hand_index, completed_hands>>
    /\ UNCHANGED <<shoeVars, dealerVars, round_active, action_history,
                   max_split_hands, pc, strategy_call>>

(***************************************************************************)
(* core/table.py: Seat                                                     *)
(***************************************************************************)
\* Seat.split_hand: the seat's state after the call, and whether it raised
Seat_split_hand_raises ==
    IF is_split THEN ~can_split_current ELSE ~Hand_can_split(hands[1])

Seat_split_hand_effect ==
    IF Seat_split_hand_raises
    THEN UNCHANGED seatVars
    ELSE IF is_split
         THEN /\ hands' = split_at(hands, current_hand_index)
              /\ UNCHANGED <<is_split, current_hand_index, completed_hands>>
         ELSE /\ hands' = initial_split(hands[1])
              /\ current_hand_index' = 0
              /\ completed_hands' = {}
              /\ is_split' = TRUE

Seat_split_hand ==
    /\ Seat_split_hand_effect
    /\ last_call' = Call("Seat.split_hand",
                         IF Seat_split_hand_raises THEN "raised" ELSE "ok")
    /\ UNCHANGED <<shoeVars, dealerVars, round_active, action_history,
                   max_split_hands, pc, strategy_call>>

Seat_add_card(card) ==
    /\ hands' = seat_after_add(card)
    /\ last_call' = Call("Seat.add_card", "ok")
    /\ UNCHANGED <<is_split, current_hand_index, completed_hands>>
    /\ UNCHANGED <<shoeVars, dealerVars, round_active, action_history,
                   max_split_hands, pc, strategy_call>>

\* Cards held by the seat's hands altogether
RECURSIVE card_count(_)
card_count(hs) == IF hs = <<>> THEN 0 ELSE Len(Head(hs)) + card_count(Tail(hs))

(***************************************************************************)
(* SpecSplit: a seat's hand is dealt, split, played and completed.         *)
(***************************************************************************)
InitSplit ==
    /\ cards_dealt = <<>>
    /\ running_count = 0
    /\ hands = << <<>> >>
    /\ is_split = FALSE
    /\ current_hand_index = 0
    /\ completed_hands = {}
    /\ upcard = "None"
    /\ hole_card = "None"
    /\ hit_cards = <<>>
    /\ round_active = FALSE
    /\ action_history = <<>>
    /\ max_split_hands \in 2..MaxConfiguredSplitHands
    /\ last_call = Call("Seat", "ok")
    /\ strategy_call = NoStrategyCall
    /\ pc = "command"

DealToSeat ==
    \E card \in SplitRanks :
        /\ card_count(hands) < MaxSplitCards
        /\ \/ ~is_split /\ Seat_add_card(card)
           \/ add_card_to_current(card)

NextSplit ==
    \/ DealToSeat
    \/ SplitHands_init
    \/ split_current
    \/ Seat_split_hand
    \/ complete_current_hand

SpecSplit == InitSplit /\ [][NextSplit]_vars


(***************************************************************************)
(* Claims about SplitHands, checked under SpecSplit                        *)
(***************************************************************************)
\* C3: in every state of a SplitHands object, also after failed calls, the
\* cursor indexes a hand (0 <= current_hand_index < len(hands)) and there are
\* at least 2 hands; right after construction from a pair there are exactly
\* two one-card hands, the cursor is 0 and the finished set is empty.
C3_CursorInRange ==
    /\ is_split =>
          /\ 0 <= current_hand_index
          /\ current_hand_index < Len(hands)
          /\ Len(hands) >= 2
    /\ last_call = Call("SplitHands", "ok") =>
          /\ is_split
          /\ Len(hands) = 2
          /\ Len(hands[1]) = 1
          /\ Len(hands[2]) = 1
          /\ current_hand_index = 0
          /\ completed_hands = {}

\* C3 witness: four hands, all finished, the cursor on the last one, and a
\* split_current that has just failed there
C3_Witness ==
    /\ is_split
    /\ Len(hands) = 4
    /\ current_hand_index = 3
    /\ completed_hands = {0, 1, 2, 3}
    /\ last_call = Call("split_current", "raised")

\* C4 (the claim as stated): the number of hands never exceeds the configured
\* Rules.max_split_hands, and can_split_current is true iff the hand at the
\* cursor is a pair and len(hands) < max_split_hands.
C4_ConfiguredMaximum ==
    is_split =>
        /\ Len(hands) <= max_split_hands
        /\ can_split_current <=>
               (is_pair(current_hand) /\ Len(hands) < max_split_hands)

\* C5: split_current called when the hand at the cursor is not a pair, or when
\* there are already as many hands as SplitHands allows, raises and leaves
\* the hands, their cards, the cursor and the finished set unchanged;
\* constructing SplitHands from a hand that is not a pair raises likewise.
C5_FailedSplitChangesNothing ==
    [][ /\ ( /\ last_call'.op = "split_current"
             /\ (~is_pair(current_hand) \/ Len(hands) = SplitHandsLimit) )
           => (last_call'.result = "raised" /\ UNCHANGED seatVars)
        /\ (last_call'.op = "SplitHands" /\ ~is_pair(hands[1]))
           => (last_call'.result = "raised" /\ UNCHANGED seatVars)
      ]_vars

\* C5 witness: split_current has just raised on a pair because four hands exist
C5_Witness ==
    /\ last_call = Call("split_current", "raised")
    /\ Len(hands) = SplitHandsLimit
    /\ is_pair(current_hand)

\* C6: a successful split_current with the cursor at i puts the pair's first
\* card alone at i and its second card alone at i+1, moves every later hand
\* one place right with its cards unchanged, leaves the earlier hands and the
\* cursor alone and makes the list one hand longer.
C6_SplitInsertsAfterCursor ==
    [][ ( /\ is_split
          /\ last_call'.op \in {"split_current", "Seat.split_hand"}
          /\ last_call'.result = "ok" )
        => LET i == current_hand_index IN
           /\ Len(hands') = Len(hands) + 1
           /\ hands'[i + 1] = <<hands[i + 1][1]>>
           /\ hands'[i + 2] = <<hands[i + 1][2]>>
           /\ \A j \in 0..(i - 1) : hands'[j + 1] = hands[j + 1]
           /\ \A j \in (i + 1)..(Len(hands) - 1) : hands'[j + 2] = hands[j + 1]
           /\ current_hand_index' = i
           /\ card_count(hands') = card_count(hands)
      ]_vars

\* C6 witness: the pair T,K at index 1 of three hands has just been split;
\* the hand that was at index 2 is now at index 3
C6_Witness ==
    /\ last_call = Call("split_current", "ok")
    /\ current_hand_index = 1
    /\ hands = << <<"K">>, <<"T">>, <<"K">>, <<"T">> >>

\* C7: complete_current_hand adds the cursor's index to the finished set and
\* moves the cursor to the lowest index not in the finished set; when every
\* index is finished the cursor stays; no hand's cards change.
C7_CompleteAdvancesToLowestOpen ==
    [][ last_call'.op = "complete_current_hand"
        => /\ completed_hands' = completed_hands \cup {current_hand_index}
           /\ hands' = hands
           /\ IF \A i \in 0..(Len(hands) - 1) : i \in completed_hands'
              THEN current_hand_index' = current_hand_index
              ELSE /\ current_hand_index' \in 0..(Len(hands) - 1)
                   /\ current_hand_index' \notin completed_hands'
                   /\ \A j \in 0..(current_hand_index' - 1) :
                          j \in completed_hands'
      ]_vars

\* C7 witness: the last of three hands has just been completed and the
\* cursor stayed on it
C7_Witness ==
    /\ last_call = Call("complete_current_hand", "ok")
    /\ Len(hands) = 3
    /\ completed_hands = {0, 1, 2}
    /\ current_hand_index = 2

\* C8: is_complete is true iff every index 0..len(hands)-1 is in the finished
\* set, and the finished set holds no index outside that range.
C8_CompleteIffAllFinished ==
    is_split =>
        /\ is_complete <=> (\A i \in 0..(Len(hands) - 1) : i \in completed_hands)
        /\ completed_hands \subseteq 0..(Len(hands) - 1)

\* C8 witness: some but not all of three hands are finished
C8_Witness ==
    /\ is_split
    /\ Len(hands) = 3
    /\ completed_hands = {0, 1}
    /\ ~is_complete

\* C26: under any sequence of add_card_to_current, split_current and
\* complete_current_hand the cursor never moves to a lower index, every
\* finished index is <= the cursor and the finished set is a prefix 0..k-1
\* of the indices.
C26_FinishedLeftToRight ==
    [][ (is_split /\ is_split') =>
            /\ current_hand_index' >= current_hand_index
            /\ \A i \in completed_hands' : i <= current_hand_index'
            /\ completed_hands' = 0..(Cardinality(completed_hands') - 1)
      ]_vars

\* C26 witness: two of three hands are finished and the cursor is on the third
C26_Witness ==
    /\ is_split
    /\ last_call = Call("complete_current_hand", "ok")
    /\ Len(hands) = 3
    /\ completed_hands = {0, 1}
    /\ current_hand_index = 2

\* C27 (the claim as stated): once is_complete is true it stays true under
\* every further split_current, complete_current_hand and add_card_to_current,
\* and whenever is_complete is false the cursor is not in the finished set.
C27_CompleteStaysComplete ==
    [][ /\ (is_split /\ is_complete) => is_complete'
        /\ (is_split' /\ ~is_complete') =>
               current_hand_index' \notin completed_hands'
      ]_vars


(***************************************************************************)
(* strategy/basic_strategy.py: Action, BasicStrategy                       *)
(***************************************************************************)
HIT == "Hit"
STAND == "Stand"
DOUBLE == "Double"
SPLIT == "Split"

Action == {HIT, STAND, DOUBLE, SPLIT}

\* Dealer upcard values the lookups are called with (11 is the Ace)
DealerUpcards == 2..11

\* Dealer upcard values passed to the lookups: 2..11 and, as integers the
\* tables have no column for, 1 and 12
UpcardArgs == DealerUpcards \cup {1, 12}

\* A table row lists the actions against dealer upcards 2, 3, ..., 10, 11
hard_totals ==
       5 :> <<HIT, HIT, HIT, HIT, HIT, HIT, HIT, HIT, HIT, HIT>>
    @@ 6 :> <<HIT, HIT, HIT, HIT, HIT, HIT, HIT, HIT, HIT, HIT>>
    @@ 7 :> <<HIT, HIT, HIT, HIT, HIT, HIT, HIT, HIT, HIT, HIT>>
    @@ 8 :> <<HIT, HIT, HIT, HIT, HIT, HIT, HIT, HIT, HIT, HIT>>
    @@ 9 :> <<HIT, DOUBLE, DOUBLE, DOUBLE, DOUBLE, HIT, HIT, HIT, HIT, HIT>>
    @@ 10 :> <<DOUBLE, DOUBLE, DOUBLE, DOUBLE, DOUBLE, DOUBLE, DOUBLE, DOUBLE, HIT, HIT>>
    @@ 11 :> <<DOUBLE, DOUBLE, DOUBLE, DOUBLE, DOUBLE, DOUBLE, DOUBLE, DOUBLE, DOUBLE, DOUBLE>>
    @@ 12 :> <<HIT, HIT, STAND, STAND, STAND, HIT, HIT, HIT, HIT, HIT>>
    @@ 13 :> <<STAND, STAND, STAND, STAND, STAND, HIT, HIT, HIT, HIT, HIT>>
    @@ 14 :> <<STAND, STAND, STAND, STAND, STAND, HIT, HIT, HIT, HIT, HIT>>
    @@ 15 :> <<STAND, STAND, STAND, STAND, STAND, HIT, HIT, HIT, HIT, HIT>>
    @@ 16 :> <<STAND, STAND, STAND, STAND, STAND, HIT, HIT, HIT, HIT, HIT>>
    @@ 17 :> <<STAND, STAND, STAND, STAND, STAND, STAND, STAND, STAND, STAND, STAND>>
    @@ 18 :> <<STAND, STAND, STAND, STAND, STAND, STAND, STAND, STAND, STAND, STAND>>
    @@ 19 :> <<STAND, STAND, STAND, STAND, STAND, STAND, STAND, STAND, STAND, STAND>>
    @@ 20 :> <<STAND, STAND, STAND, STAND, STAND, STAND, STAND, STAND, STAND, STAND>>
    @@ 21 :> <<STAND, STAND, STAND, STAND, STAND, STAND, STAND, STAND, STAND, STAND>>

soft_totals ==
       13 :> <<HIT, HIT, HIT, DOUBLE, DOUBLE, HIT, HIT, HIT, HIT, HIT>>
    @@ 14 :> <<HIT, HIT, HIT, DOUBLE, DOUBLE, HIT, HIT, HIT, HIT, HIT>>
    @@ 15 :> <<HIT, HIT, DOUBLE, DOUBLE, DOUBLE, HIT, HIT, HIT, HIT, HIT>>
    @@ 16 :> <<HIT, HIT, DOUBLE, DOUBLE, DOUBLE, HIT, HIT, HIT, HIT, HIT>>
    @@ 17 :> <<HIT, DOUBLE, DOUBLE, DOUBLE, DOUBLE, HIT, HIT, HIT, HIT, HIT>>
    @@ 18 :> <<STAND, DOUBLE, DOUBLE, DOUBLE, DOUBLE, STAND, STAND, HIT, HIT, HIT>>
    @@ 19 :> <<STAND, STAND, STAND, STAND, STAND, STAND, STAND, STAND, STAND, STAND>>
    @@ 20 :> <<STAND, STAND, STAND, STAND, STAND, STAND, STAND, STAND, STAND, STAND>>
    @@ 21 :> <<STAND, STAND, STAND, STAND, STAND, STAND, STAND, STAND, STAND, STAND>>

pairs ==
       2 :> <<HIT, HIT, SPLIT, SPLIT, SPLIT, SPLIT, HIT, HIT, HIT, HIT>>
    @@ 3 :> <<HIT, HIT, SPLIT, SPLIT, SPLIT, SPLIT, HIT, HIT, HIT, HIT>>
    @@ 4 :> <<HIT, HIT, HIT, SPLIT, SPLIT, HIT, HIT, HIT, HIT, HIT>>
    @@ 5 :> <<DOUBLE, DOUBLE, DOUBLE, DOUBLE, DOUBLE, DOUBLE, DOUBLE, DOUBLE, HIT, HIT>>
    @@ 6 :> <<HIT, SPLIT, SPLIT, SPLIT, SPLIT, HIT, HIT, HIT, HIT, HIT>>
    @@ 7 :> <<SPLIT, SPLIT, SPLIT, SPLIT, SPLIT, SPLIT, HIT, HIT, HIT, HIT>>
    @@ 8 :> <<SPLIT, SPLIT, SPLIT, SPLIT, SPLIT, SPLIT, SPLIT, SPLIT, SPLIT, SPLIT>>
    @@ 9 :> <<SPLIT, SPLIT, SPLIT, SPLIT, SPLIT, STAND, SPLIT, SPLIT, STAND, STAND>>
    @@ 10 :> <<STAND, STAND, STAND, STAND, STAND, STAND, STAND, STAND, STAND, STAND>>
    @@ 11 :> <<SPLIT, SPLIT, SPLIT, SPLIT, SPLIT, SPLIT, SPLIT, SPLIT, SPLIT, SPLIT>>

\* row.get with Stand as the default
row_get_stand_default(row, dealer_upcard_value) ==
    IF dealer_upcard_value \in 2..11 THEN row[dealer_upcard_value - 1] ELSE STAND

\* row.get(dealer_upcard_value, Action.HIT): a row's keys are 2..11
row_get(row, dealer_upcard_value) ==
    IF dealer_upcard_value \in 2..11 THEN row[dealer_upcard_value - 1] ELSE HIT

\* "if action == Action.DOUBLE and not can_double: return Action.HIT"
hit_if_no_double(action, can_double) ==
    IF action = DOUBLE /\ ~can_double THEN HIT ELSE action

\* get_action without its pair branch
get_action_no_pairs(cards, dealer_upcard_value, can_double) ==
    IF is_busted(cards) THEN STAND
    ELSE IF is_blackjack(cards) THEN STAND
    ELSE IF is_soft(cards) /\ total(cards) \in DOMAIN soft_totals
    THEN hit_if_no_double(row_get(soft_totals[total(cards)], dealer_upcard_value),
                          can_double)
    ELSE IF total(cards) \in DOMAIN hard_totals
    THEN hit_if_no_double(row_get(hard_totals[total(cards)], dealer_upcard_value),
                          can_double)
    ELSE HIT

\* BasicStrategy.get_action(hand, dealer_upcard_value, can_double)
get_action(cards, dealer_upcard_value, can_double) ==
    IF is_busted(cards) THEN STAND
    ELSE IF is_blackjack(cards) THEN STAND
    ELSE IF is_pair(cards) /\ bj_value(pair_rank(cards)) \in DOMAIN pairs
    THEN row_get(pairs[bj_value(pair_rank(cards))], dealer_upcard_value)
    ELSE IF is_soft(cards) /\ total(cards) \in DOMAIN soft_totals
    THEN hit_if_no_double(row_get(soft_totals[total(cards)], dealer_upcard_value),
                          can_double)
    ELSE IF total(cards) \in DOMAIN hard_totals
    THEN hit_if_no_double(row_get(hard_totals[total(cards)], dealer_upcard_value),
                          can_double)
    ELSE HIT

(***************************************************************************)
(* SpecStrategy: BasicStrategy.get_action is asked about a hand.  The hand *)
(* is any card sequence of up to MaxHandLen cards; the dealer upcard value *)
(* and can_double are the call's arguments.                                *)
(***************************************************************************)
\* Every Hand(cards) of at most n cards
HandsUpTo(n) == UNION {[1..m -> Rank] : m \in 0..n}

InitStrategy ==
    /\ cards_dealt = <<>>
    /\ running_count = 0
    /\ hands \in {<<cards>> : cards \in HandsUpTo(MaxHandLen)}
    /\ is_split = FALSE
    /\ current_hand_index = 0
    /\ completed_hands = {}
    /\ upcard = "None"
    /\ hole_card = "None"
    /\ hit_cards = <<>>
    /\ round_active = FALSE
    /\ action_history = <<>>
    /\ max_split_hands = DefaultMaxSplitHands
    /\ last_call = Call("Hand", "ok")
    /\ strategy_call = NoStrategyCall
    /\ pc = "command"

AskBasicStrategy ==
    /\ strategy_call = NoStrategyCall
    /\ \E dealer_upcard_value \in UpcardArgs, can_double \in BOOLEAN :
        /\ strategy_call' =
               [fn |-> "get_action",
                dealer_upcard_value |-> dealer_upcard_value,
                can_double |-> can_double,
                result |-> get_action(hands[1], dealer_upcard_value, can_double)]
        /\ last_call' = Call("get_action", "ok")
        /\ UNCHANGED <<seatVars, shoeVars, dealerVars, round_active,
                       action_history, max_split_hands, pc>>

NextStrategy == AskBasicStrategy

SpecStrategy == InitStrategy /\ [][NextStrategy]_vars

(***************************************************************************)
(* Claims about Hand and BasicStrategy, checked under SpecStrategy         *)
(***************************************************************************)
\* The hand under evaluation
hand == hands[1]

AcePositions(cards) == {i \in 1..Len(cards) : cards[i] = "A"}

RECURSIVE SumAt(_, _)
SumAt(cards, positions) ==
    IF positions = {} THEN 0
    ELSE LET i == CHOOSE i \in positions : TRUE
         IN  bj_value(cards[i]) + SumAt(cards, positions \ {i})

\* s of the claim: the sum of the values of the cards that are not Aces
NonAceSum(cards) == SumAt(cards, (1..Len(cards)) \ AcePositions(cards))

\* k of the claim: the number of Aces
AceCount(cards) == Cardinality(AcePositions(cards))

\* C2 (the claim as stated): for every non-empty hand, with s the non-ace sum
\* and k >= 0 the ace count, total = s+k+10 and is_soft iff s+k+10 <= 21,
\* otherwise total = s+k and not is_soft.
C2_AsStated ==
    hand # <<>> =>
        LET s == NonAceSum(hand)
            k == AceCount(hand)
        IN  IF s + k + 10 <= 21
            THEN total(hand) = s + k + 10 /\ is_soft(hand)
            ELSE total(hand) = s + k /\ ~is_soft(hand)

\* C2 (amended): for every hand with at least one Ace (k >= 1), total = s+k+10
\* and is_soft iff s+k+10 <= 21, otherwise total = s+k and not is_soft; a
\* hand without an Ace (k = 0) has total = s and is never soft.
C2_TotalAndSoftness ==
    LET s == NonAceSum(hand)
        k == AceCount(hand)
    IN  IF k >= 1 /\ s + k + 10 <= 21
        THEN total(hand) = s + k + 10 /\ is_soft(hand)
        ELSE total(hand) = s + k /\ ~is_soft(hand)

\* C2 witness: two Aces and a 9, where s+k+10 is exactly 21
C2_Witness ==
    /\ hand = <<"A", "9", "A">>
    /\ total(hand) = 21
    /\ is_soft(hand)

\* C9 (the claim as stated): get_action never returns Double when can_double
\* is false, for hard hands, soft hands and pairs alike.
C9_NoDoubleWhenNotAllowed ==
    (strategy_call.fn = "get_action" /\ ~strategy_call.can_double)
        => strategy_call.result # DOUBLE

\* C10 (the claim as stated): for a soft hand that is not a pair and totals
\* less than 13, get_action returns Hit for every upcard and can_double.
C10_LowSoftTotalHits ==
    ( /\ strategy_call.fn = "get_action"
      /\ is_soft(hand)
      /\ ~is_pair(hand)
      /\ total(hand) < 13 )
        => strategy_call.result = HIT

\* C11: for every two-card pair hand (never a blackjack), get_action returns
\* the pair-table entry for (pair value, dealer upcard) whether or not the
\* hand is soft: Aces and 8s give Split against every upcard 2..11, two
\* ten-valued cards give Stand against every upcard 2..11, and 5s never
\* give Split.
C11_PairsUsePairTable ==
    (strategy_call.fn = "get_action" /\ is_pair(hand)) =>
        LET pair_value == bj_value(hand[1])
            d == strategy_call.dealer_upcard_value
        IN  /\ ~is_blackjack(hand)
            /\ strategy_call.result = row_get(pairs[pair_value], d)
            /\ (pair_value \in {8, 11} /\ d \in DealerUpcards)
                   => strategy_call.result = SPLIT
            /\ (pair_value = 10 /\ d \in DealerUpcards)
                   => strategy_call.result = STAND
            /\ pair_value = 5 => strategy_call.result # SPLIT

\* C11 witness: a pair of Aces, which is also a soft 12, is split against
\* an Ace
C11_Witness ==
    /\ strategy_call.fn = "get_action"
    /\ hand = <<"A", "A">>
    /\ is_soft(hand)
    /\ total(hand) = 12
    /\ strategy_call.dealer_upcard_value = 11
    /\ strategy_call.result = SPLIT

\* C13: for every hand that is busted (total > 21) or a blackjack (two cards
\* totalling 21) get_action returns Stand for every upcard and can_double; a
\* three-card 21 is not a blackjack and gets the entry of the soft or hard
\* table for total 21.
C13_BustedAndBlackjackStand ==
    strategy_call.fn = "get_action" =>
        LET d == strategy_call.dealer_upcard_value
            cd == strategy_call.can_double
        IN  /\ (total(hand) > 21 \/ (Len(hand) = 2 /\ total(hand) = 21))
                   => strategy_call.result = STAND
            /\ (Len(hand) = 3 /\ total(hand) = 21) =>
                   /\ ~is_blackjack(hand)
                   /\ strategy_call.result =
                          hit_if_no_double(
                              row_get(IF is_soft(hand) THEN soft_totals[21]
                                      ELSE hard_totals[21], d), cd)

\* C13 witness: a three-card 21 asked with an upcard value the tables have
\* no column for gets the row's default, where a blackjack gets Stand
C13_Witness ==
    /\ strategy_call.fn = "get_action"
    /\ hand = <<"7", "7", "7">>
    /\ strategy_call.dealer_upcard_value = 12
    /\ strategy_call.result = HIT

IndexPlay(name, player_total, dealer_upcard, soft, pair, threshold, basic_action, index_action) ==
    [name |-> name,
     player_total |-> player_total,
     dealer_upcard |-> dealer_upcard,
     is_soft |-> soft,
     is_pair |-> pair,
     true_count_threshold |-> threshold,
     basic_action |-> basic_action,
     index_action |-> index_action]

\* IndexPlays.plays, in declaration order
plays ==
    << IndexPlay("16 vs 10", 16, 10, FALSE, FALSE, 0, HIT, STAND),
       IndexPlay("15 vs 10", 15, 10, FALSE, FALSE, 40, HIT, STAND),
       IndexPlay("10 vs 10", 10, 10, FALSE, FALSE, 40, HIT, DOUBLE),
       IndexPlay("12 vs 3", 12, 3, FALSE, FALSE, 20, HIT, STAND),
       IndexPlay("12 vs 2", 12, 2, FALSE, FALSE, 30, HIT, STAND),
       IndexPlay("11 vs A", 11, 11, FALSE, FALSE, 10, HIT, DOUBLE),
       IndexPlay("9 vs 2", 9, 2, FALSE, FALSE, 10, HIT, DOUBLE),
       IndexPlay("10 vs A", 10, 11, FALSE, FALSE, 40, HIT, DOUBLE),
       IndexPlay("9 vs 7", 9, 7, FALSE, FALSE, 30, HIT, DOUBLE),
       IndexPlay("16 vs 9", 16, 9, FALSE, FALSE, 50, HIT, STAND),
       IndexPlay("13 vs 2 (negative)", 13, 2, FALSE, FALSE, -10, STAND, HIT),
       IndexPlay("12 vs 4 (negative)", 12, 4, FALSE, FALSE, 0, STAND, HIT),
       IndexPlay("12 vs 5 (negative)", 12, 5, FALSE, FALSE, -20, STAND, HIT),
       IndexPlay("12 vs 6 (negative)", 12, 6, FALSE, FALSE, -10, STAND, HIT),
       IndexPlay("13 vs 3 (negative)", 13, 3, FALSE, FALSE, -20, STAND, HIT),
       IndexPlay("20 vs 5 (split)", 20, 5, FALSE, TRUE, 50, STAND, SPLIT),
       IndexPlay("20 vs 6 (split)", 20, 6, FALSE, TRUE, 40, STAND, SPLIT),
       IndexPlay("AA vs A (negative)", 12, 11, TRUE, TRUE, -10, SPLIT, STAND),
       IndexPlay("8 vs 6", 8, 6, FALSE, FALSE, 20, HIT, DOUBLE),
       IndexPlay("15 vs A", 15, 11, FALSE, FALSE, 50, HIT, STAND),
       IndexPlay("14 vs 10", 14, 10, FALSE, FALSE, 30, HIT, STAND),
       IndexPlay("A,6 vs 2", 17, 2, TRUE, FALSE, 10, HIT, DOUBLE),
       IndexPlay("A,5 vs 4", 16, 4, TRUE, FALSE, 20, HIT, DOUBLE),
       IndexPlay("13 vs 4 (negative)", 13, 4, FALSE, FALSE, -10, STAND, HIT) >>

\* IndexPlays.insurance_threshold (3.0)
insurance_threshold == 30

\* The threshold test of IndexPlay.applies with ">=" on both branches
threshold_met_upward(play, true_count) ==
    true_count >= play.true_count_threshold

\* The threshold test that ends IndexPlay.applies
threshold_met(play, true_count) ==
    IF play.true_count_threshold >= 0
    THEN true_count >= play.true_count_threshold
    ELSE true_count <= play.true_count_threshold

\* IndexPlay.applies without its test of the dealer upcard
applies_ignoring_upcard(play, hand_total, hand_is_soft, hand_is_pair, dealer_upcard_value, true_count) ==
    IF hand_total # play.player_total THEN FALSE
    ELSE IF play.is_soft /\ ~hand_is_soft THEN FALSE
    ELSE IF ~play.is_soft /\ hand_is_soft THEN FALSE
    ELSE IF play.is_pair /\ ~hand_is_pair THEN FALSE
    ELSE IF ~play.is_pair /\ hand_is_pair THEN FALSE
    ELSE threshold_met(play, true_count)

\* IndexPlay.applies(hand, dealer_upcard_value, true_count); hand_total,
\* hand_is_soft and hand_is_pair are hand.total, hand.is_soft and hand.is_pair
applies(play, hand_total, hand_is_soft, hand_is_pair, dealer_upcard_value, true_count) ==
    IF hand_total # play.player_total THEN FALSE
    ELSE IF dealer_upcard_value # play.dealer_upcard THEN FALSE
    ELSE IF play.is_soft /\ ~hand_is_soft THEN FALSE
    ELSE IF ~play.is_soft /\ hand_is_soft THEN FALSE
    ELSE IF play.is_pair /\ ~hand_is_pair THEN FALSE
    ELSE IF ~play.is_pair /\ hand_is_pair THEN FALSE
    ELSE threshold_met(play, true_count)

\* IndexPlay.get_action with strict comparisons
IndexPlay_get_action_strict(play, true_count) ==
    IF play.true_count_threshold >= 0
    THEN IF true_count > play.true_count_threshold
         THEN play.index_action ELSE play.basic_action
    ELSE IF true_count < play.true_count_threshold
         THEN play.index_action ELSE play.basic_action

\* IndexPlay.get_action(true_count)
IndexPlay_get_action(play, true_count) ==
    IF play.true_count_threshold >= 0
    THEN IF true_count >= play.true_count_threshold
         THEN play.index_action ELSE play.basic_action
    ELSE IF true_count <= play.true_count_threshold
         THEN play.index_action ELSE play.basic_action

\* Positions of the rules in IndexPlays.plays; 0 stands for "no rule" (None)
PlayIds == 1..Len(plays)

NoPlay == 0

\* IndexPlays.get_applicable_plays: the applicable rules, in list order
get_applicable_plays(cards, dealer_upcard_value, true_count) ==
    LET hand_total == total(cards)
        hand_is_soft == is_soft(cards)
        hand_is_pair == is_pair(cards)
    IN  SelectSeq([i \in PlayIds |-> i],
                  LAMBDA i : applies(plays[i], hand_total, hand_is_soft,
                                     hand_is_pair, dealer_upcard_value,
                                     true_count))

\* get_index_action answering Hit, not the basic action, when no rule applies
get_index_action_default_hit(cards, dealer_upcard_value, true_count, basic_action) ==
    LET applicable_plays ==
            get_applicable_plays(cards, dealer_upcard_value, true_count)
    IN  IF applicable_plays # <<>>
        THEN [action |-> IndexPlay_get_action(plays[applicable_plays[1]], true_count),
              play |-> applicable_plays[1]]
        ELSE [action |-> HIT, play |-> NoPlay]

\* IndexPlays.get_index_action: (action, applicable_index_play)
get_index_action(cards, dealer_upcard_value, true_count, basic_action) ==
    LET applicable_plays ==
            get_applicable_plays(cards, dealer_upcard_value, true_count)
    IN  IF applicable_plays # <<>>
        THEN [action |-> IndexPlay_get_action(plays[applicable_plays[1]], true_count),
              play |-> applicable_plays[1]]
        ELSE [action |-> basic_action, play |-> NoPlay]

\* IndexPlays.should_take_insurance(true_count)
should_take_insurance(true_count) == true_count >= insurance_threshold

(***************************************************************************)
(* strategy/advisor.py: Advisor                                            *)
(***************************************************************************)
\* "if not can_double and final_action == Action.DOUBLE: final_action = HIT"
validate_double(action, can_double) ==
    IF ~can_double /\ action = DOUBLE THEN HIT ELSE action

\* The split validation without its test of can_split and hand.is_pair
validate_split_never(action, cards, can_split) == action

\* "if not (can_split and hand.is_pair) and final_action == Action.SPLIT"
validate_split(action, cards, can_split) ==
    IF ~(can_split /\ is_pair(cards)) /\ action = SPLIT
    THEN IF total(cards) >= 17 THEN STAND ELSE HIT
    ELSE action

\* get_advice without the validation of Double
get_advice_unvalidated(cards, dealer_upcard_value, true_count, can_double, can_split) ==
    LET basic_advice == get_action(cards, dealer_upcard_value, can_double)
        found == get_index_action(cards, dealer_upcard_value, true_count,
                                  basic_advice)
    IN  [action |-> validate_split(found.action, cards, can_split),
         basic_strategy |-> basic_advice,
         count_influenced |-> found.play # NoPlay,
         index_action |-> found.action,
         index_play |-> found.play]

\* Advisor.get_advice(hand, dealer_upcard_value, true_count, can_double,
\* can_split): the advice's action, basic_strategy and count_influenced, with
\* what get_index_action returned (index_action, index_play)
get_advice(cards, dealer_upcard_value, true_count, can_double, can_split) ==
    LET basic_advice == get_action(cards, dealer_upcard_value, can_double)
        found == get_index_action(cards, dealer_upcard_value, true_count,
                                  basic_advice)
    IN  [action |-> validate_split(validate_double(found.action, can_double),
                                   cards, can_split),
         basic_strategy |-> basic_advice,
         count_influenced |-> found.play # NoPlay,
         index_action |-> found.action,
         index_play |-> found.play]

\* get_insurance_advice with a strict comparison
get_insurance_advice_strict(true_count) ==
    [take_insurance |-> true_count > insurance_threshold,
     true_count |-> true_count,
     threshold |-> insurance_threshold]

\* Advisor.get_insurance_advice(true_count)
get_insurance_advice(true_count) ==
    [take_insurance |-> true_count >= insurance_threshold,
     true_count |-> true_count,
     threshold |-> insurance_threshold]

(***************************************************************************)
(* SpecAdvisor: the Advisor is asked about a hand.  The hand is any card   *)
(* sequence of up to MaxAdviceCards cards over AdviceRanks; the dealer     *)
(* upcard value, the true count, can_double and can_split are the call's   *)
(* arguments.                                                              *)
(***************************************************************************)
\* Ranks of the advised hands: they make every total, soft total and pair
\* value an index play names
AdviceRanks == {"A", "2", "5", "6", "8", "9", "T"}

\* Every Hand(cards) of at most MaxAdviceCards cards, its cards in ascending
\* order: total, is_soft and is_pair, all the Advisor reads of a hand, do not
\* depend on the order of the cards
AdviceHands ==
    UNION {{cards \in [1..m -> AdviceRanks] :
               \A i \in 1..(m - 1) : bj_value(cards[i]) <= bj_value(cards[i + 1])} :
           m \in 0..MaxAdviceCards}

\* True counts in tenths: every whole count up to MaxTrueCount in size, with
\* its neighbours 0.1 below and 0.1 above
TrueCounts ==
    {10 * n + d : n \in (0 - MaxTrueCount)..MaxTrueCount, d \in {-1, 0, 1}}

InitAdvisor ==
    /\ cards_dealt = <<>>
    /\ running_count = 0
    /\ hands \in {<<cards>> : cards \in AdviceHands}
    /\ is_split = FALSE
    /\ current_hand_index = 0
    /\ completed_hands = {}
    /\ upcard = "None"
    /\ hole_card = "None"
    /\ hit_cards = <<>>
    /\ round_active = FALSE
    /\ action_history = <<>>
    /\ max_split_hands = DefaultMaxSplitHands
    /\ last_call = Call("Advisor", "ok")
    /\ strategy_call = NoStrategyCall
    /\ pc = "command"

AskAdvisor ==
    /\ strategy_call = NoStrategyCall
    /\ \E dealer_upcard_value \in UpcardArgs, true_count \in TrueCounts,
          can_double \in BOOLEAN, can_split \in BOOLEAN :
        /\ strategy_call' =
               [fn |-> "get_advice",
                dealer_upcard_value |-> dealer_upcard_value,
                true_count |-> true_count,
                can_double |-> can_double,
                can_split |-> can_split,
                applicable_plays |->
                    get_applicable_plays(hands[1], dealer_upcard_value, true_count),
                result |-> get_advice(hands[1], dealer_upcard_value, true_count,
                                      can_double, can_split)]
        /\ last_call' = Call("get_advice", "ok")
        /\ UNCHANGED <<seatVars, shoeVars, dealerVars, round_active,
                       action_history, max_split_hands, pc>>

AskInsurance ==
    /\ strategy_call = NoStrategyCall
    /\ \E true_count \in TrueCounts :
        /\ strategy_call' =
               [fn |-> "get_insurance_advice",
                true_count |-> true_count,
                should_take_insurance |-> should_take_insurance(true_count),
                result |-> get_insurance_advice(true_count)]
        /\ last_call' = Call("get_insurance_advice", "ok")
        /\ UNCHANGED <<seatVars, shoeVars, dealerVars, round_active,
                       action_history, max_split_hands, pc>>

NextAdvisor == AskAdvisor \/ AskInsurance

SpecAdvisor == InitAdvisor /\ [][NextAdvisor]_vars

(***************************************************************************)
(* Claims about IndexPlays and the Advisor, checked under SpecAdvisor      *)
(***************************************************************************)
\* C12 (the claim as stated): get_action and get_index_action return one of
\* Hit/Stand/Double/Split for every hand and every integer upcard value, and
\* every hard total below 5 and every upcard value missing from the table
\* row yields Hit.
C12_AsStated ==
    strategy_call.fn = "get_advice" =>
        /\ strategy_call.result.basic_strategy \in Action
        /\ strategy_call.result.index_action \in Action
        /\ (~is_soft(hand) /\ total(hand) < 5)
               => strategy_call.result.basic_strategy = HIT
        /\ strategy_call.dealer_upcard_value \notin DealerUpcards
               => strategy_call.result.basic_strategy = HIT

\* C12 (amended): get_action and get_index_action return one of
\* Hit/Stand/Double/Split for every hand and every integer upcard value; a
\* hand that is not a pair and has a hard total below 5 yields Hit; with an
\* upcard value outside 2..11 a busted hand or a blackjack yields Stand, every
\* other hand yields Hit, and no index play applies.
C12_LookupsAlwaysAnswer ==
    strategy_call.fn = "get_advice" =>
        LET d == strategy_call.dealer_upcard_value
            advice == strategy_call.result
            decided == total(hand) > 21 \/ (Len(hand) = 2 /\ total(hand) = 21)
        IN  /\ last_call = Call("get_advice", "ok")
            /\ advice.basic_strategy \in Action
            /\ advice.index_action \in Action
            /\ (~is_pair(hand) /\ ~is_soft(hand) /\ total(hand) < 5) =>
                   /\ advice.basic_strategy = HIT
                   /\ advice.index_action = HIT
            /\ (d \notin DealerUpcards /\ decided) =>
                   advice.basic_strategy = STAND
            /\ (d \notin DealerUpcards /\ ~decided) =>
                   advice.basic_strategy = HIT
            /\ d \notin DealerUpcards =>
                   /\ advice.index_play = NoPlay
                   /\ advice.index_action = advice.basic_strategy

\* C12 witness: the empty hand asked with an upcard value of 12
C12_Witness ==
    /\ strategy_call.fn = "get_advice"
    /\ hand = <<>>
    /\ strategy_call.dealer_upcard_value = 12
    /\ strategy_call.result.basic_strategy = HIT
    /\ strategy_call.result.index_action = HIT

\* What the advisor was asked and what it answered
advice == strategy_call.result

asked_upcard == strategy_call.dealer_upcard_value

asked_true_count == strategy_call.true_count

Range(seq) == {seq[i] : i \in 1..Len(seq)}

\* C15: a rule applies iff hand.total equals its player_total, the upcard
\* equals its dealer_upcard, hand.is_soft equals its is_soft, hand.is_pair
\* equals its is_pair, and the true count is >= the threshold when the
\* threshold is >= 0, <= the threshold when it is negative (true counts in
\* steps of 0.1, here in tenths).
C15_AppliesIffAllMatch ==
    strategy_call.fn = "get_advice" =>
        \A i \in PlayIds :
            i \in Range(strategy_call.applicable_plays) <=>
                /\ total(hand) = plays[i].player_total
                /\ asked_upcard = plays[i].dealer_upcard
                /\ is_soft(hand) = plays[i].is_soft
                /\ is_pair(hand) = plays[i].is_pair
                /\ IF plays[i].true_count_threshold >= 0
                   THEN asked_true_count >= plays[i].true_count_threshold
                   ELSE asked_true_count <= plays[i].true_count_threshold

\* C15 witness: "13 vs 2 (negative)", threshold -1.0, applies to a hard 13
\* against a 2 at a true count of exactly -1.0
C15_Witness ==
    /\ strategy_call.fn = "get_advice"
    /\ hand = <<"2", "T", "A">>
    /\ asked_upcard = 2
    /\ asked_true_count = -10
    /\ strategy_call.applicable_plays = <<11>>

\* C16: for a hard, non-pair 16 against dealer upcard 10, get_advice returns
\* Stand with count_influenced true for every true count >= 0.0 and the
\* basic-strategy Hit with count_influenced false for every true count < 0.
C16_SixteenVsTen ==
    ( /\ strategy_call.fn = "get_advice"
      /\ total(hand) = 16
      /\ ~is_soft(hand)
      /\ ~is_pair(hand)
      /\ asked_upcard = 10 ) =>
        IF asked_true_count >= 0
        THEN advice.action = STAND /\ advice.count_influenced
        ELSE /\ advice.action = HIT
             /\ advice.basic_strategy = HIT
             /\ ~advice.count_influenced

\* C16 witness: 6 and T against a 10 at a true count of exactly 0.0
C16_Witness ==
    /\ strategy_call.fn = "get_advice"
    /\ hand = <<"6", "T">>
    /\ asked_upcard = 10
    /\ asked_true_count = 0
    /\ advice.action = STAND
    /\ advice.count_influenced

\* C17: get_index_action returns the index_action and the identity of the
\* first rule, in declaration order, whose applies() is true; when no rule
\* applies it returns the basic_action it was given and no rule.
C17_FirstApplicableRule ==
    strategy_call.fn = "get_advice" =>
        LET applicable == Range(strategy_call.applicable_plays)
        IN  IF applicable # {}
            THEN /\ advice.index_play \in applicable
                 /\ \A i \in applicable : advice.index_play <= i
                 /\ advice.index_action = plays[advice.index_play].index_action
            ELSE /\ advice.index_play = NoPlay
                 /\ advice.index_action = advice.basic_strategy

\* C17 witness: no rule applies to a hard 13 against a 2 at a true count of
\* 0.0, and the basic action Stand comes back unchanged
C17_Witness ==
    /\ strategy_call.fn = "get_advice"
    /\ hand = <<"5", "8">>
    /\ asked_upcard = 2
    /\ asked_true_count = 0
    /\ strategy_call.applicable_plays = <<>>
    /\ advice.index_play = NoPlay
    /\ advice.basic_strategy = STAND
    /\ advice.index_action = STAND

\* C18: get_insurance_advice and should_take_insurance recommend insurance
\* iff the true count is >= 3.0, and the reported threshold is always 3.0.
C18_InsuranceAtThree ==
    strategy_call.fn = "get_insurance_advice" =>
        /\ advice.take_insurance <=> asked_true_count >= 30
        /\ strategy_call.should_take_insurance <=> asked_true_count >= 30
        /\ advice.threshold = 30
        /\ advice.true_count = asked_true_count

\* C18 witness: insurance is taken at a true count of exactly 3.0
C18_Witness ==
    /\ strategy_call.fn = "get_insurance_advice"
    /\ asked_true_count = 30
    /\ advice.take_insurance
    /\ strategy_call.should_take_insurance

\* C19: when get_advice is called with can_double false the returned action
\* is never Double; a Double from basic strategy or from an index play
\* resolves to Hit, for every hand, upcard and true count.
C19_NoDoubleWithoutCanDouble ==
    (strategy_call.fn = "get_advice" /\ ~strategy_call.can_double) =>
        /\ advice.action # DOUBLE
        /\ advice.index_action = DOUBLE => advice.action = HIT

\* C19 witness: "10 vs 10" at a true count of 4.0 asks for Double, and the
\* advice is Hit as can_double is false
C19_Witness ==
    /\ strategy_call.fn = "get_advice"
    /\ ~strategy_call.can_double
    /\ hand = <<"2", "8">>
    /\ asked_upcard = 10
    /\ asked_true_count = 40
    /\ advice.index_action = DOUBLE
    /\ advice.count_influenced
    /\ advice.action = HIT

C21_NoDoubleAfterHit ==
    (strategy_call.fn = "get_advice" /\ Len(hand) > 2)
        => advice.action # DOUBLE

\* C24 (the claim as stated): for a hard, non-pair 12 against dealer upcard
\* 4, get_advice returns Hit when the true count is <= 0 and the
\* basic-strategy Stand when the true count is > 0.
C24_TwelveVsFour ==
    ( /\ strategy_call.fn = "get_advice"
      /\ total(hand) = 12
      /\ ~is_soft(hand)
      /\ ~is_pair(hand)
      /\ asked_upcard = 4 ) =>
        IF asked_true_count <= 0
        THEN advice.action = HIT
        ELSE advice.action = STAND /\ advice.basic_strategy = STAND

\* The (player_total, dealer_upcard, is_soft, is_pair) tuple of a rule
situation(play) ==
    <<play.player_total, play.dealer_upcard, play.is_soft, play.is_pair>>

\* C25: no two rules of the built-in list share the same (player_total,
\* dealer_upcard, is_soft, is_pair) tuple, and for every hand, dealer upcard
\* and true count at most one rule applies.
C25_RulesMutuallyExclusive ==
    /\ \A i, j \in PlayIds :
           i # j => situation(plays[i]) # situation(plays[j])
    /\ strategy_call.fn = "get_advice"
           => Len(strategy_call.applicable_plays) <= 1

\* C25 witness: of the four rules for a hard 12 only "12 vs 4 (negative)"
\* applies against a 4
C25_Witness ==
    /\ strategy_call.fn = "get_advice"
    /\ hand = <<"2", "T">>
    /\ asked_upcard = 4
    /\ asked_true_count = 30
    /\ strategy_call.applicable_plays = <<12>>

\* C28 (the claim as stated): whenever get_advice reports count_influenced
\* true for an upcard 2..11, the returned action differs from the returned
\* basic_strategy action.
C28_DeviationChangesAction ==
    ( /\ strategy_call.fn = "get_advice"
      /\ asked_upcard \in DealerUpcards
      /\ advice.count_influenced )
        => advice.action # advice.basic_strategy

(***************************************************************************)
(* core/card.py: Shoe                                                      *)
(***************************************************************************)
\* Shoe.deal_card
deal_card(card) ==
    /\ cards_dealt' = Append(cards_dealt, card)
    /\ running_count' = running_count + hi_lo_value(card)

\* Shoe.shuffle
shuffle ==
    /\ cards_dealt' = <<>>
    /\ running_count' = 0
    /\ last_call' = Call("shuffle", "ok")
    /\ UNCHANGED <<seatVars, dealerVars, round_active, action_history,
                   max_split_hands, pc, strategy_call>>

(***************************************************************************)
(* core/table.py: Table, with one seat "P1"                                *)
(***************************************************************************)
seats == {"P1"}

\* Seat ids the table operations are called with
SeatIds == {"P1", "P2"}

\* Cards lying on the table: the seat's hands and the dealer's cards
table_card_count ==
    card_count(hands) + (IF upcard = "None" THEN 0 ELSE 1)
        + (IF hole_card = "None" THEN 0 ELSE 1) + Len(hit_cards)

\* The model enters a card only within its bounds
MayDeal ==
    /\ Len(cards_dealt) < MaxDealt
    /\ Len(action_history) < MaxDealt
    /\ table_card_count < MaxTableCards

\* Table.end_round
end_round ==
    /\ round_active' = FALSE
    /\ last_call' = Call("end_round", "ok")
    /\ UNCHANGED <<shoeVars, seatVars, dealerVars, action_history,
                   max_split_hands, pc, strategy_call>>

\* Table.split_player_hand -> Seat.split_hand
split_player_hand ==
    \E seat_id \in SeatIds :
        /\ IF seat_id \notin seats
           THEN /\ last_call' = Call("split_player_hand", "raised")
                /\ UNCHANGED seatVars
           ELSE /\ Seat_split_hand_effect
                /\ last_call' = Call("split_player_hand",
                                     IF Seat_split_hand_raises THEN "raised" ELSE "ok")
        /\ UNCHANGED <<shoeVars, dealerVars, round_active, action_history,
                       max_split_hands, pc, strategy_call>>

(***************************************************************************)
(* tui/table_simulator.py: BlackjackTableSimulator                         *)
(***************************************************************************)
Entry(type, player, card) == [type |-> type, player |-> player, card |-> card]

\* _record_action: append, and drop the oldest entry beyond HistoryLimit
recorded(history, entry) ==
    LET appended == Append(history, entry)
    IN  IF Len(appended) > HistoryLimit THEN Tail(appended) ELSE appended

Contains(seq, x) == \E i \in 1..Len(seq) : seq[i] = x

\* list.remove(x): the list without its first element equal to x
RemoveFirst(seq, x) ==
    LET i == CHOOSE i \in 1..Len(seq) :
                 seq[i] = x /\ \A j \in 1..(i - 1) : seq[j] # x
    IN  SubSeq(seq, 1, i - 1) \o SubSeq(seq, i + 1, Len(seq))

Last(seq) == seq[Len(seq)]

Front(seq) == SubSeq(seq, 1, Len(seq) - 1)

undo_shoe_tracking_unchecked(card) ==
    /\ cards_dealt' = IF Contains(cards_dealt, card)
                      THEN RemoveFirst(cards_dealt, card) ELSE cards_dealt
    /\ running_count' = running_count - hi_lo_value(card)

\* The undo functions' shoe part: "if card in cards_dealt: remove it and
\* subtract its hi_lo_value"
undo_shoe_tracking(card) ==
    IF Contains(cards_dealt, card)
    THEN /\ cards_dealt' = RemoveFirst(cards_dealt, card)
         /\ running_count' = running_count - hi_lo_value(card)
    ELSE UNCHANGED shoeVars

\* start_new_round's first two statements: Table.start_round, then
\* _record_action('round_start'); a raise is caught and reported
start_new_round ==
    /\ Len(action_history) < MaxDealt
    /\ IF round_active
       THEN /\ last_call' = Call("start_round", "raised")
            /\ UNCHANGED <<seatVars, dealerVars, round_active, action_history>>
       ELSE /\ upcard' = "None"
            /\ hole_card' = "None"
            /\ hit_cards' = <<>>
            /\ hands' = << <<>> >>
            /\ is_split' = FALSE
            /\ current_hand_index' = 0
            /\ completed_hands' = {}
            /\ round_active' = TRUE
            /\ action_history' =
                   recorded(action_history, Entry("round_start", "None", "None"))
            /\ last_call' = Call("start_round", "ok")
    /\ UNCHANGED <<shoeVars, max_split_hands, pc, strategy_call>>

\* Table.add_card_to_player, then _record_action('player_card', ...)
player_card ==
    \E seat_id \in SeatIds, card \in DealRanks :
        /\ MayDeal
        /\ IF seat_id \notin seats
           THEN /\ last_call' = Call("add_card_to_player", "raised")
                /\ UNCHANGED <<hands, shoeVars, action_history>>
           ELSE /\ hands' = seat_after_add(card)
                /\ deal_card(card)
                /\ action_history' =
                       recorded(action_history, Entry("player_card", seat_id, card))
                /\ last_call' = Call("add_card_to_player", "ok")
        /\ UNCHANGED <<is_split, current_hand_index, completed_hands, dealerVars,
                       round_active, max_split_hands, pc, strategy_call>>

\* _handle_player's split branch, one pass of its loop: the card goes to the
\* split hand itself, then Shoe.deal_card and _record_action('player_card')
split_hand_card ==
    \E i \in 1..Len(hands), card \in DealRanks :
        /\ MayDeal
        /\ is_split
        /\ hands' = [hands EXCEPT ![i] = Append(@, card)]
        /\ deal_card(card)
        /\ action_history' =
               recorded(action_history, Entry("player_card", "P1", card))
        /\ last_call' = Call("split_hand.add_card", "ok")
        /\ UNCHANGED <<is_split, current_hand_index, completed_hands, dealerVars,
                       round_active, max_split_hands, pc, strategy_call>>

\* Table.add_dealer_upcard without its "already set" test
dealer_upcard_overwrites ==
    \E card \in DealRanks :
        /\ MayDeal
        /\ upcard' = card
        /\ deal_card(card)
        /\ action_history' =
               recorded(action_history, Entry("dealer_upcard", "None", card))
        /\ last_call' = Call("add_dealer_upcard", "ok")
        /\ UNCHANGED <<seatVars, hole_card, hit_cards, round_active,
                       max_split_hands, pc, strategy_call>>

\* Table.add_dealer_upcard, then _record_action('dealer_upcard', ...)
dealer_upcard ==
    \E card \in DealRanks :
        /\ MayDeal
        /\ IF upcard # "None"
           THEN /\ last_call' = Call("add_dealer_upcard", "raised")
                /\ UNCHANGED <<upcard, shoeVars, action_history>>
           ELSE /\ upcard' = card
                /\ deal_card(card)
                /\ action_history' =
                       recorded(action_history, Entry("dealer_upcard", "None", card))
                /\ last_call' = Call("add_dealer_upcard", "ok")
        /\ UNCHANGED <<seatVars, hole_card, hit_cards, round_active,
                       max_split_hands, pc, strategy_call>>

\* The action types the two callers of add_dealer_hole_card record:
\* start_new_round records 'dealer_holecard', _handle_dealer 'dealer_hole_card'
HoleCardTypes == {"dealer_holecard", "dealer_hole_card"}

\* Table.add_dealer_hole_card, then _record_action(<type>, ...)
dealer_hole_card ==
    \E card \in DealRanks, type \in HoleCardTypes :
        /\ MayDeal
        /\ IF hole_card # "None"
           THEN /\ last_call' = Call("add_dealer_hole_card", "raised")
                /\ UNCHANGED <<hole_card, shoeVars, action_history>>
           ELSE /\ hole_card' = card
                /\ deal_card(card)
                /\ action_history' =
                       recorded(action_history, Entry(type, "None", card))
                /\ last_call' = Call("add_dealer_hole_card", "ok")
        /\ UNCHANGED <<seatVars, upcard, hit_cards, round_active,
                       max_split_hands, pc, strategy_call>>

\* Table.add_dealer_hit_card, then _record_action('dealer_hit', ...)
dealer_hit ==
    \E card \in DealRanks :
        /\ MayDeal
        /\ hit_cards' = Append(hit_cards, card)
        /\ deal_card(card)
        /\ action_history' =
               recorded(action_history, Entry("dealer_hit", "None", card))
        /\ last_call' = Call("add_dealer_hit_card", "ok")
        /\ UNCHANGED <<seatVars, upcard, hole_card, round_active,
                       max_split_hands, pc, strategy_call>>

\* shuffle_shoe: a new Shoe replaces the old one, the history is cleared
shuffle_shoe ==
    /\ cards_dealt' = <<>>
    /\ running_count' = 0
    /\ action_history' = <<>>
    /\ last_call' = Call("shuffle_shoe", "ok")
    /\ UNCHANGED <<seatVars, dealerVars, round_active, max_split_hands, pc,
                   strategy_call>>

\* _undo_player_card(player, card), the action already popped
undo_player_card(player, card) ==
    IF player \notin seats
    THEN /\ last_call' = Call("undo_last_action", "refused")
         /\ action_history' = Front(action_history)
         /\ UNCHANGED <<hands, shoeVars>>
    ELSE IF is_split
    \* seat.hands is a SplitHands, which has no .cards: the AttributeError is
    \* caught by undo_last_action, which puts the action back
    THEN /\ last_call' = Call("undo_last_action", "failed")
         /\ UNCHANGED <<hands, shoeVars, action_history>>
    ELSE IF hands[1] = <<>> \/ Last(hands[1]) # card
    THEN /\ last_call' = Call("undo_last_action", "refused")
         /\ action_history' = Front(action_history)
         /\ UNCHANGED <<hands, shoeVars>>
    ELSE /\ hands' = [hands EXCEPT ![1] = Front(@)]
         /\ undo_shoe_tracking(card)
         /\ action_history' = Front(action_history)
         /\ last_call' = Call("undo_last_action", "ok")

\* _undo_dealer_upcard(card)
undo_dealer_upcard(card) ==
    /\ action_history' = Front(action_history)
    /\ IF upcard # card
       THEN /\ last_call' = Call("undo_last_action", "refused")
            /\ UNCHANGED <<upcard, shoeVars>>
       ELSE /\ upcard' = "None"
            /\ undo_shoe_tracking(card)
            /\ last_call' = Call("undo_last_action", "ok")

\* _undo_dealer_hole_card(card)
undo_dealer_hole_card(card) ==
    /\ action_history' = Front(action_history)
    /\ IF hole_card # card
       THEN /\ last_call' = Call("undo_last_action", "refused")
            /\ UNCHANGED <<hole_card, shoeVars>>
       ELSE /\ hole_card' = "None"
            /\ undo_shoe_tracking(card)
            /\ last_call' = Call("undo_last_action", "ok")

\* _undo_dealer_hit(card)
undo_dealer_hit(card) ==
    /\ action_history' = Front(action_history)
    /\ IF hit_cards = <<>> \/ Last(hit_cards) # card
       THEN /\ last_call' = Call("undo_last_action", "refused")
            /\ UNCHANGED <<hit_cards, shoeVars>>
       ELSE /\ hit_cards' = Front(hit_cards)
            /\ undo_shoe_tracking(card)
            /\ last_call' = Call("undo_last_action", "ok")

\* _undo_round_start()
undo_round_start ==
    /\ action_history' = Front(action_history)
    /\ IF round_active
       THEN /\ round_active' = FALSE
            /\ last_call' = Call("undo_last_action", "ok")
       ELSE /\ round_active' = round_active
            /\ last_call' = Call("undo_last_action", "refused")

\* undo_last_action
undo_last_action ==
    /\ IF action_history = <<>>
       THEN /\ last_call' = Call("undo_last_action", "refused")
            /\ UNCHANGED <<shoeVars, hands, dealerVars, round_active,
                           action_history>>
       ELSE LET action == Last(action_history) IN
            CASE action.type = "player_card" ->
                     /\ undo_player_card(action.player, action.card)
                     /\ UNCHANGED <<dealerVars, round_active>>
              [] action.type = "dealer_upcard" ->
                     /\ undo_dealer_upcard(action.card)
                     /\ UNCHANGED <<hands, hole_card, hit_cards, round_active>>
              [] action.type = "dealer_hole_card" ->
                     /\ undo_dealer_hole_card(action.card)
                     /\ UNCHANGED <<hands, upcard, hit_cards, round_active>>
              [] action.type = "dealer_hit" ->
                     /\ undo_dealer_hit(action.card)
                     /\ UNCHANGED <<hands, upcard, hole_card, round_active>>
              [] action.type = "round_start" ->
                     /\ undo_round_start
                     /\ UNCHANGED <<shoeVars, hands, dealerVars>>
              [] OTHER ->
                     /\ action_history' = Front(action_history)
                     /\ last_call' = Call("undo_last_action", "refused")
                     /\ UNCHANGED <<shoeVars, hands, dealerVars, round_active>>
    /\ UNCHANGED <<is_split, current_hand_index, completed_hands,
                   max_split_hands, pc, strategy_call>>

(***************************************************************************)
(* Spec: the table after setup; cards are entered, undone, the shoe is     *)
(* shuffled, rounds start and end.                                         *)
(***************************************************************************)
Init ==
    /\ cards_dealt = <<>>
    /\ running_count = 0
    /\ hands = << <<>> >>
    /\ is_split = FALSE
    /\ current_hand_index = 0
    /\ completed_hands = {}
    /\ upcard = "None"
    /\ hole_card = "None"
    /\ hit_cards = <<>>
    /\ round_active = FALSE
    /\ action_history = <<>>
    /\ max_split_hands = DefaultMaxSplitHands
    /\ last_call = Call("setup_players", "ok")
    /\ strategy_call = NoStrategyCall
    /\ pc = "command"

Next ==
    \/ start_new_round
    \/ player_card
    \/ split_player_hand
    \/ split_hand_card
    \/ dealer_upcard
    \/ dealer_hole_card
    \/ dealer_hit
    \/ undo_last_action
    \/ shuffle
    \/ shuffle_shoe
    \/ end_round

Spec == Init /\ [][Next]_vars

(***************************************************************************)
(* Claims about the shoe, checked under Spec                               *)
(***************************************************************************)
RECURSIVE hi_lo_sum(_)
hi_lo_sum(cards) ==
    IF cards = <<>> THEN 0 ELSE hi_lo_value(Head(cards)) + hi_lo_sum(Tail(cards))

\* C1: after any sequence of deals, shuffles and undo retractions the
\* running count equals the sum of the Hi-Lo values of the cards in the dealt
\* log; right after a shuffle the log is empty and the running count is 0.
C1_RunningCountMatchesLog ==
    /\ running_count = hi_lo_sum(cards_dealt)
    /\ last_call.op \in {"shuffle", "shuffle_shoe"} =>
           (cards_dealt = <<>> /\ running_count = 0)

\* C1 witness: a 5 and a King were dealt and the King's deal has just been
\* undone; the log holds the 5 and the running count is +1
C1_Witness ==
    /\ last_call = Call("undo_last_action", "ok")
    /\ cards_dealt = <<"5">>
    /\ running_count = 1
    /\ hit_cards = <<>>
    /\ hands = << <<"5">> >>

(***************************************************************************)
(* Claims about the table's card operations, checked under Spec            *)
(***************************************************************************)
TableCardOps ==
    {"add_card_to_player", "add_dealer_upcard", "add_dealer_hole_card",
     "add_dealer_hit_card"}

\* C22: add_dealer_upcard (add_dealer_hole_card) called while the upcard
\* (hole card) is already set raises and leaves the dealer's cards, the dealt
\* log and the running count as they were, and it succeeds when the card is
\* not set; start_round resets the dealer, so that the card can be set again;
\* every successful Table card operation appends exactly one card to the
\* dealt log.
C22_DealerCardSetOnce ==
    [][ /\ last_call'.op = "add_dealer_upcard" =>
               IF upcard # "None"
               THEN /\ last_call'.result = "raised"
                    /\ UNCHANGED <<dealerVars, shoeVars>>
               ELSE /\ last_call'.result = "ok"
                    /\ upcard' # "None"
        /\ last_call'.op = "add_dealer_hole_card" =>
               IF hole_card # "None"
               THEN /\ last_call'.result = "raised"
                    /\ UNCHANGED <<dealerVars, shoeVars>>
               ELSE /\ last_call'.result = "ok"
                    /\ hole_card' # "None"
        /\ last_call' = Call("start_round", "ok") =>
               (upcard' = "None" /\ hole_card' = "None" /\ hit_cards' = <<>>)
        /\ (last_call'.op \in TableCardOps /\ last_call'.result = "ok") =>
               (/\ Len(cards_dealt') = Len(cards_dealt) + 1
                /\ Front(cards_dealt') = cards_dealt)
      ]_vars

\* C22 witness: a second upcard was refused; the dealer still shows the 5
\* dealt first, which is the only card in the dealt log
C22_Witness ==
    /\ last_call = Call("add_dealer_upcard", "raised")
    /\ upcard = "5"
    /\ cards_dealt = <<"5">>
    /\ running_count = 1

(***************************************************************************)
(* Claims about the simulator's undo, checked under Spec                   *)
(***************************************************************************)
\* C29: undo is the exact inverse of dealing: undo_last_action called right
\* after a player card was added and recorded succeeds and takes the card
\* off the seat's hand and off the end of the dealt log, and the running
\* count loses the card's Hi-Lo value; an undo that does not succeed leaves
\* the action history unchanged.
C29_UndoInvertsDeal ==
    [][ /\ (/\ last_call = Call("add_card_to_player", "ok")
            /\ last_call'.op = "undo_last_action") =>
               (/\ last_call'.result = "ok"
                /\ hands' = [hands EXCEPT ![current_hand_index + 1] = Front(@)]
                /\ cards_dealt' = Front(cards_dealt)
                /\ running_count' =
                       running_count - hi_lo_value(Last(cards_dealt)))
        /\ (/\ last_call'.op = "undo_last_action"
            /\ last_call'.result # "ok") =>
               action_history' = action_history
      ]_vars

(***************************************************************************)
(* SpecShoe: the table's shoe, dealt from card by card, past its last      *)
(* card, and shuffled                                                      *)
(***************************************************************************)
\* DEFAULT_RULES.num_decks, handed to Shoe by Table.__init__
num_decks == 6

\* DEFAULT_RULES.penetration_threshold = 0.75, in hundredths
penetration_threshold == 75

\* Shoe.cards_remaining
cards_remaining == num_decks * 52 - Len(cards_dealt)

\* Shoe.true_count = running_count / decks_remaining, as the fraction
\* <<numerator, denominator>>: decks_remaining is cards_remaining / 52.0;
\* 0.0 is <<0, 1>>
true_count ==
    IF cards_remaining <= 0
    THEN <<0, 1>>
    ELSE <<running_count * 52, cards_remaining>>

\* Shoe.needs_shuffle with ">" in place of ">="
needs_shuffle_strict ==
    Len(cards_dealt) * 100 > penetration_threshold * (num_decks * 52)

\* Shoe.needs_shuffle: penetration >= penetration_threshold, where
\* penetration is len(cards_dealt) / (num_decks * 52)
needs_shuffle ==
    Len(cards_dealt) * 100 >= penetration_threshold * (num_decks * 52)

\* One rank of each Hi-Lo value
ShoeRanks == {"5", "8", "K"}

\* Shoe.deal_card, called on the table's shoe; between two shuffles the
\* model deals cards of one rank
DealFromShoe ==
    \E card \in ShoeRanks :
        /\ Len(cards_dealt) < MaxShoeDealt
        /\ cards_dealt # <<>> => card = Head(cards_dealt)
        /\ deal_card(card)
        /\ last_call' = Call("deal_card", "ok")
        /\ UNCHANGED <<seatVars, dealerVars, round_active, action_history,
                       max_split_hands, pc, strategy_call>>

NextShoe ==
    \/ DealFromShoe
    \/ shuffle

SpecShoe == Init /\ [][NextShoe]_vars

\* C23: needs_shuffle is true exactly when dealt_count / (6 * 52) >= 0.75,
\* that is from the 234th card on; deal_card never fails, also beyond the
\* 312 cards of the shoe, where true_count is 0; once needs_shuffle is true
\* it stays true under deal_card, and shuffle makes it false.
C23_NeedsShuffleFromThresholdOn ==
    [][ /\ needs_shuffle <=> Len(cards_dealt) >= 234
        /\ last_call'.op = "deal_card" =>
               (/\ last_call'.result = "ok"
                /\ Len(cards_dealt') = Len(cards_dealt) + 1
                /\ needs_shuffle => needs_shuffle'
                /\ needs_shuffle' <=> Len(cards_dealt') >= 234
                /\ Len(cards_dealt') >= 312 => true_count' = <<0, 1>>
                /\ Len(cards_dealt') < 312 => true_count'[2] > 0)
        /\ last_call'.op = "shuffle" => ~needs_shuffle'
      ]_vars

\* C23 witness: a card was dealt beyond the last card of the shoe; a shuffle
\* is due and the true count is 0 although the running count is not
C23_Witness ==
    /\ last_call = Call("deal_card", "ok")
    /\ Len(cards_dealt) = 313
    /\ running_count = 313
    /\ needs_shuffle
    /\ true_count = <<0, 1>>

(***************************************************************************)
(* SpecRound: the newround command. start_new_round runs from prompt to    *)
(* prompt; the user enters valid cards and valid actions only.             *)
(***************************************************************************)
\* The cards entered at the prompts of a round
RoundRanks == {"5", "8", "K", "A"}

\* _handle_player's "Check if done" at the top of its loop
player_done(cards) == is_blackjack(cards) \/ is_busted(cards) \/ total(cards) >= 21

\* "except Exception as e: return f'Error: {e}'": back at the command prompt
returns_error ==
    /\ pc' = "command"
    /\ last_call' = Call("start_new_round", "error")

\* newround: Table.start_round and _record_action('round_start')
newround ==
    /\ pc = "command"
    /\ IF round_active
       THEN /\ returns_error
            /\ UNCHANGED <<seatVars, dealerVars, round_active, action_history>>
       ELSE /\ upcard' = "None"
            /\ hole_card' = "None"
            /\ hit_cards' = <<>>
            /\ hands' = << <<>> >>
            /\ is_split' = FALSE
            /\ current_hand_index' = 0
            /\ completed_hands' = {}
            /\ round_active' = TRUE
            /\ action_history' =
                   recorded(action_history, Entry("round_start", "None", "None"))
            /\ last_call' = Call("start_round", "ok")
            /\ pc' = "card1"
    /\ UNCHANGED <<shoeVars, max_split_hands, strategy_call>>

\* Table.add_card_to_player(name, card) and its record, as start_new_round
\* and _handle_player call it
round_player_card(card) ==
    /\ hands' = seat_after_add(card)
    /\ deal_card(card)
    /\ action_history' = recorded(action_history, Entry("player_card", "P1", card))
    /\ last_call' = Call("add_card_to_player", "ok")

\* "Card 1" prompt
round_card1 ==
    \E card \in RoundRanks :
        /\ pc = "card1"
        /\ round_player_card(card)
        /\ pc' = "upcard"
        /\ UNCHANGED <<is_split, current_hand_index, completed_hands, dealerVars,
                       round_active, max_split_hands, strategy_call>>

\* "Dealer Upcard" prompt
round_upcard ==
    \E card \in RoundRanks :
        /\ pc = "upcard"
        /\ IF upcard # "None"
           THEN /\ returns_error
                /\ UNCHANGED <<upcard, shoeVars, action_history>>
           ELSE /\ upcard' = card
                /\ deal_card(card)
                /\ action_history' =
                       recorded(action_history, Entry("dealer_upcard", "None", card))
                /\ last_call' = Call("add_dealer_upcard", "ok")
                /\ pc' = "card2"
        /\ UNCHANGED <<seatVars, hole_card, hit_cards, round_active,
                       max_split_hands, strategy_call>>

\* "Card 2" prompt
round_card2 ==
    \E card \in RoundRanks :
        /\ pc = "card2"
        /\ round_player_card(card)
        /\ pc' = "hole"
        /\ UNCHANGED <<is_split, current_hand_index, completed_hands, dealerVars,
                       round_active, max_split_hands, strategy_call>>

\* "Dealer Hole Card (hidden)" prompt, then the insurance and blackjack
\* checks. dealer_upcard.rank == 'A' compares a Rank with a string and is
\* false for every card. With a ten-valued upcard the check calls
\* dealer.hand.is_blackjack(), a property holding a bool: the TypeError is
\* caught by start_new_round's except. Otherwise _handle_player begins.
round_hole_card ==
    \E card \in RoundRanks :
        /\ pc = "hole"
        /\ IF hole_card # "None"
           THEN /\ returns_error
                /\ UNCHANGED <<hole_card, shoeVars, action_history>>
           ELSE /\ hole_card' = card
                /\ deal_card(card)
                /\ action_history' =
                       recorded(action_history, Entry("dealer_holecard", "None", card))
                /\ IF bj_value(upcard) = 10
                   THEN returns_error
                   ELSE /\ last_call' = Call("add_dealer_hole_card", "ok")
                        /\ pc' = IF player_done(hands[1])
                                 THEN "dealer_hole" ELSE "decision"
        /\ UNCHANGED <<seatVars, upcard, hit_cards, round_active,
                       max_split_hands, strategy_call>>

\* _handle_player, decision "hit": a card, then busted or 21 ends the turn
player_hits ==
    \E card \in RoundRanks :
        /\ pc = "decision"
        /\ round_player_card(card)
        /\ pc' = IF player_done(Append(hands[1], card))
                 THEN "dealer_hole" ELSE "decision"
        /\ UNCHANGED <<is_split, current_hand_index, completed_hands, dealerVars,
                       round_active, max_split_hands, strategy_call>>

\* _handle_player, decision "stand"
player_stands ==
    /\ pc = "decision"
    /\ pc' = "dealer_hole"
    /\ last_call' = Call("stand", "ok")
    /\ UNCHANGED <<shoeVars, seatVars, dealerVars, round_active, action_history,
                   max_split_hands, strategy_call>>

\* _handle_player, decision "double" (valid when hand.can_double): one card
player_doubles ==
    \E card \in RoundRanks :
        /\ pc = "decision"
        /\ Hand_can_double(hands[1])
        /\ round_player_card(card)
        /\ pc' = "dealer_hole"
        /\ UNCHANGED <<is_split, current_hand_index, completed_hands, dealerVars,
                       round_active, max_split_hands, strategy_call>>

\* _handle_player, decision "split" (valid when the hand is a pair and the
\* seat has no splits): Table.split_player_hand, then one card to each of
\* the two hands, each with Shoe.deal_card and a 'player_card' record
player_splits ==
    \E card1 \in RoundRanks, card2 \in RoundRanks :
        /\ pc = "decision"
        /\ is_pair(hands[1]) /\ ~is_split
        /\ IF ~Hand_can_split(hands[1])
           THEN /\ returns_error
                /\ UNCHANGED <<seatVars, shoeVars, action_history>>
           ELSE /\ hands' = [i \in 1..2 |->
                                Append(initial_split(hands[1])[i],
                                       IF i = 1 THEN card1 ELSE card2)]
                /\ current_hand_index' = 0
                /\ completed_hands' = {}
                /\ is_split' = TRUE
                /\ cards_dealt' = cards_dealt \o <<card1, card2>>
                /\ running_count' =
                       running_count + hi_lo_value(card1) + hi_lo_value(card2)
                /\ action_history' =
                       recorded(recorded(action_history,
                                         Entry("player_card", "P1", card1)),
                                Entry("player_card", "P1", card2))
                /\ last_call' = Call("split_hand.add_card", "ok")
                /\ pc' = "dealer_hole"
        /\ UNCHANGED <<dealerVars, round_active, max_split_hands, strategy_call>>

\* _handle_dealer's first loop, one pass: "Dealer hole card" prompt and
\* Table.add_dealer_hole_card; a raise is printed and the prompt repeats.
\* The hole card was set by round_hole_card, so no pass leaves the loop;
\* the dealer's hits and _show_results, which follow it, have no action.
handle_dealer ==
    \E card \in RoundRanks :
        /\ pc = "dealer_hole"
        /\ IF hole_card # "None"
           THEN /\ last_call' = Call("add_dealer_hole_card", "raised")
                /\ pc' = "dealer_hole"
                /\ UNCHANGED <<hole_card, shoeVars, action_history>>
           ELSE /\ hole_card' = card
                /\ deal_card(card)
                /\ action_history' =
                       recorded(action_history, Entry("dealer_hole_card", "None", card))
                /\ last_call' = Call("add_dealer_hole_card", "ok")
                /\ pc' = "dealer_hits"
        /\ UNCHANGED <<seatVars, upcard, hit_cards, round_active,
                       max_split_hands, strategy_call>>

NextRound ==
    \/ newround
    \/ round_card1
    \/ round_upcard
    \/ round_card2
    \/ round_hole_card
    \/ player_hits
    \/ player_stands
    \/ player_doubles
    \/ player_splits
    \/ handle_dealer

SpecRound == Init /\ [][NextRound]_vars

\* C30: every round started with start_new_round finishes when the user
\* enters valid cards and actions: whenever start_new_round has returned,
\* also with an error, round_active is false, so that the next newround
\* starts a round; and the dealer's turn terminates: a valid card entered at
\* the dealer's hole card prompt ends that prompt's loop.
C30_RoundFinishes ==
    [][ /\ pc' = "command" => ~round_active'
        /\ pc = "command" => pc' = "card1"
        /\ pc = "dealer_hole" => pc' # "dealer_hole"
      ]_vars

=============================================================================
